---------------------------- MODULE Spec2Model ----------------------------
(***************************************************************************)
(* begin-cli: the Cardano chain adapter (src/src/chains/cardano.rs), the   *)
(* wallet store (src/src/wallet/mod.rs) and the new / import commands      *)
(* (src/src/commands/).                                                    *)
(*                                                                         *)
(* A Rust String is modelled as the sequence of its characters, each a     *)
(* one-character string; every string of the model is ASCII, so that the   *)
(* byte length str::len() is the length of the sequence and a byte slice   *)
(* &s[..n] is SubSeq(s, 1, n).                                             *)
(***************************************************************************)
EXTENDS Integers, Sequences, FiniteSets, TLC

VARIABLES
    vpc, vaddr, vresult,       \* a direct call of Cardano::validate_address
    addresses,                 \* WalletStore.addresses of a store held in memory
    calls,                     \* history: the set_address / remove_address calls made on it
    sret,                      \* what the last remove_address returned
    disk,                      \* the wallet store file wallets.json
    cmd,                       \* the last call, if a new / import command: input, result, output
    storedSeed,                \* history: the Seed whose address the file holds
    derived,                   \* the last call, if a direct derive_address_from_mnemonic
    adapter,                   \* the Cardano adapter: api_url and api_key
    bpc,                       \* where the get_balance call stands: idle, awaiting, done
    baddr,                     \* the address get_balance was called with
    requests,                  \* the requests the call has issued to the indexer
    response,                  \* what the indexer answered
    bresult,                   \* what get_balance returned
    notes,                     \* the error notes get_balance has emitted beside its result
    sent,                      \* the last call of Cardano::send and what it returned
    resolved                   \* the last call of get_chain and what it returned

varsValidate == <<vpc, vaddr, vresult>>
varsStore == <<addresses, calls, sret>>
varsWallet == <<disk, cmd, storedSeed, derived>>
varsBalance == <<adapter, bpc, baddr, requests, response, bresult, notes>>
varsSend == <<sent>>
varsRegistry == <<resolved>>
vars == <<vpc, vaddr, vresult, addresses, calls, sret, disk, cmd, storedSeed, derived,
          adapter, bpc, baddr, requests, response, bresult, notes, sent, resolved>>

\* Option<T>: None is the empty sequence, Some(x) the one-element sequence
None == <<>>
Some(x) == <<x>>

\* HashMap::new()
EmptyStore == [k \in {} |-> <<>>]

\* WalletStore::default(), wallet/mod.rs:13-21
DefaultWalletStore == [addresses |-> EmptyStore, active_wallet |-> None]

\* no wallets.json (WalletStore::load, wallet/mod.rs:28)
AbsentFile == [state |-> "absent", store |-> DefaultWalletStore]

NoCommand ==
    [name |-> "none", chain |-> <<>>, phrase |-> <<>>, result |-> "none",
     printed |-> None, seed |-> None]

NotDerived == [called |-> FALSE, phrase |-> <<>>, ok |-> FALSE, address |-> <<>>, err |-> "none"]

(***************************************************************************)
(* Each part of the program has its own specification; the variables of    *)
(* the other parts rest at these values.                                   *)
(***************************************************************************)
ValidateIdle ==
    /\ vpc = "idle"
    /\ vaddr = <<>>
    /\ vresult = FALSE

StoreIdle ==
    /\ addresses = EmptyStore
    /\ calls = <<>>
    /\ sret = None

WalletIdle ==
    /\ disk = AbsentFile
    /\ cmd = NoCommand
    /\ storedSeed = None
    /\ derived = NotDerived

NoAdapter == [api_url |-> "none", api_key |-> None]
NoResponse == [kind |-> "none", status |-> 0, parsable |-> FALSE, amount |-> <<>>, text |-> "",
               text_read |-> FALSE]
NoBalance == [symbol |-> "", amount |-> <<>>, tokens |-> <<>>]
NoResult == [ok |-> FALSE, err |-> "none", status |-> 0, text |-> "", balance |-> NoBalance]

BalanceIdle ==
    /\ adapter = NoAdapter
    /\ bpc = "idle"
    /\ baddr = <<>>
    /\ requests = <<>>
    /\ response = NoResponse
    /\ bresult = NoResult
    /\ notes = <<>>

NoTransaction == [ok |-> FALSE, tx_hash |-> "", status |-> "none", reason |-> ""]
NoSend == [called |-> FALSE, to |-> <<>>, amount |-> <<>>, private_key |-> <<>>,
           result |-> NoTransaction]
SendIdle == sent = NoSend

NoChain == [ok |-> FALSE, chain |-> "none", err |-> "none", name |-> <<>>, supported |-> <<>>]
NoLookup == [called |-> FALSE, name |-> <<>>, result |-> NoChain]
RegistryIdle == resolved = NoLookup

(***************************************************************************)
(* Strings                                                                 *)
(***************************************************************************)

\* str::starts_with(prefix)
starts_with(s, prefix) ==
    /\ Len(prefix) <= Len(s)
    /\ SubSeq(s, 1, Len(prefix)) = prefix

UpperLetters ==
    <<"A","B","C","D","E","F","G","H","I","J","K","L","M",
      "N","O","P","Q","R","S","T","U","V","W","X","Y","Z">>
LowerLetters ==
    <<"a","b","c","d","e","f","g","h","i","j","k","l","m",
      "n","o","p","q","r","s","t","u","v","w","x","y","z">>

\* char::to_lowercase on an ASCII character
char_to_lowercase(c) ==
    IF \E i \in 1..Len(UpperLetters) : UpperLetters[i] = c
    THEN LowerLetters[CHOOSE i \in 1..Len(UpperLetters) : UpperLetters[i] = c]
    ELSE c

\* str::to_lowercase
to_lowercase(s) == [i \in 1..Len(s) |-> char_to_lowercase(s[i])]

\* n copies of the character c
Repeat(c, n) == [i \in 1..n |-> c]

AddrPrefixMainnet == <<"a","d","d","r","1">>
AddrPrefixTestnet == <<"a","d","d","r","_","t","e","s","t","1">>

(***************************************************************************)
(* Cardano::validate_address, cardano.rs:150-158                           *)
(***************************************************************************)
MinAddressLen == 50
MaxAddressLen == 120

\* a slip of the upper length comparison: < instead of <=
validate_address_strict_upper(address) ==
    LET valid_prefix == starts_with(address, AddrPrefixMainnet)
                        \/ starts_with(address, AddrPrefixTestnet)
        valid_length == Len(address) >= MinAddressLen /\ Len(address) < MaxAddressLen
    IN  valid_prefix /\ valid_length

validate_address(address) ==
    LET valid_prefix == starts_with(address, AddrPrefixMainnet)
                        \/ starts_with(address, AddrPrefixTestnet)
        valid_length == Len(address) >= MinAddressLen /\ Len(address) <= MaxAddressLen
    IN  valid_prefix /\ valid_length

(***************************************************************************)
(* The addresses handed to validate_address and get_balance.               *)
(***************************************************************************)
\* the four addresses of test_validate_address, cardano.rs:217-228
TestMainnetAddress ==
    <<"a","d","d","r","1","q","x","c","k","4","u","m","l","h","a","v","e","9","k","p","w","2","l","d","t","p","n","z","q","v","x","c","n","z","7","e","9","x","3","s","0","f","v","v","q","s","q","h","3","s","w","h","z","t","d","m","j","v","f","3","7","a","w","3","j","0","w","8","p","7","v","2","w","q","f","4","n","z","w","m","5","y","f","h","7","s","q","f","g","f","g","q","s","d","q","g","s","w","d","z","n","x","r">>
TestTestnetAddress ==
    <<"a","d","d","r","_","t","e","s","t","1","q","r","x","c","k","4","u","m","l","h","a","v","e","9","k","p","w","2","l","d","t","p","n","z","q","v","x","c","n","z","7","e","9","x","3","s","0","f","v","v","q","s","q","h","3","s","w","h","z","t","d","m","j","v","f","3","7","a","w","3","j","0","w","8","p","7","v","2","w","q","f","4","n","z","w","m","5","y","f","h","7","s","q","f","g","f","g","q","s","d","q","g","s","g","f","w","z","3","k">>
TestInvalidAddress == <<"i","n","v","a","l","i","d">>
TestBitcoinAddress ==
    <<"b","c","1","q","a","r","0","s","r","r","r","7","x","f","k","v","y","5","l","6","4","3","l","y","d","n","w","9","r","e","5","9","g","t","z","z","w","f","5","m","d","q">>

\* the longest address tried
MaxTriedLen == 121

TriedPrefixes ==
    { AddrPrefixMainnet, AddrPrefixTestnet,
      <<"a","d","d","r">>, <<"a","d","d","r","2">>, <<"A","d","d","r","1">>,
      <<"a","d","d","r","_","t","e","s","t">>, <<"x","a","d","d","r","1">>,
      <<"s","t","a","k","e","1">>, <<"b","c","1","q">>, <<>> }

TriedLens ==
    { 0, 5, 10, MinAddressLen - 1, MinAddressLen, MinAddressLen + 1, 107,
      MaxAddressLen - 1, MaxAddressLen } \cup (MaxAddressLen + 1 .. MaxTriedLen)

TriedFillers == {"q", "1"}

TriedAddresses ==
    { p \o Repeat(c, n - Len(p)) :
        <<p, n, c>> \in { t \in TriedPrefixes \X TriedLens \X TriedFillers :
                            Len(t[1]) <= t[2] } }
    \cup { TestMainnetAddress, TestTestnetAddress, TestInvalidAddress,
           TestBitcoinAddress }

(***************************************************************************)
(* WalletStore, wallet/mod.rs:13-81.  HashMap<String, String> is a         *)
(* function whose domain is the set of keys held.                          *)
(***************************************************************************)
\* HashMap::insert
map_insert(m, k, v) == [x \in DOMAIN m \cup {k} |-> IF x = k THEN v ELSE m[x]]

\* HashMap::remove: the map left
map_remove(m, k) == [x \in DOMAIN m \ {k} |-> m[x]]

\* HashMap::get(..).cloned()
map_get(m, k) == IF k \in DOMAIN m THEN Some(m[k]) ELSE None

\* WalletStore::get_address
get_address(store, chain) == map_get(store, to_lowercase(chain))

\* the key inserted as given, not lowercased
set_address_keeps_case(store, chain, address) == map_insert(store, chain, address)

\* WalletStore::set_address
set_address(store, chain, address) == map_insert(store, to_lowercase(chain), address)

\* WalletStore::remove_address: the store left, and the value returned
remove_address(store, chain) ==
    [ store |-> map_remove(store, to_lowercase(chain)),
      ret   |-> map_get(store, to_lowercase(chain)) ]

\* WalletStore::list_addresses
list_addresses(store) == store

\* the number of mapping calls followed
MaxCalls == 3

StoreChains ==
    { <<"c","a","r","d","a","n","o">>, <<"C","a","r","d","a","n","o">>,
      <<"C","A","R","D","A","N","O">>, <<"b","i","t","c","o","i","n">>,
      <<"B","i","t","c","o","i","n">>, <<"s","o","l","a","n","a">> }

\* the two addresses of test_wallet_store_roundtrip, wallet/mod.rs:90-91
StoreAddresses ==
    { <<"a","d","d","r","1","t","e","s","t","1","2","3">>,
      <<"b","c","1","t","e","s","t","4","5","6">> }

SetAddress(chain, address) ==
    /\ Len(calls) < MaxCalls
    /\ addresses' = set_address(addresses, chain, address)
    /\ calls' = Append(calls, [op |-> "set", chain |-> chain, address |-> address])
    /\ UNCHANGED sret
    /\ UNCHANGED varsValidate
    /\ UNCHANGED varsWallet
    /\ UNCHANGED varsBalance
    /\ UNCHANGED varsSend
    /\ UNCHANGED varsRegistry

RemoveAddress(chain) ==
    /\ Len(calls) < MaxCalls
    /\ addresses' = remove_address(addresses, chain).store
    /\ sret' = remove_address(addresses, chain).ret
    /\ calls' = Append(calls, [op |-> "remove", chain |-> chain, address |-> <<>>])
    /\ UNCHANGED varsValidate
    /\ UNCHANGED varsWallet
    /\ UNCHANGED varsBalance
    /\ UNCHANGED varsSend
    /\ UNCHANGED varsRegistry

InitStore ==
    /\ StoreIdle
    /\ ValidateIdle
    /\ WalletIdle
    /\ BalanceIdle
    /\ SendIdle
    /\ RegistryIdle

NextStore ==
    \/ \E chain \in StoreChains, address \in StoreAddresses : SetAddress(chain, address)
    \/ \E chain \in StoreChains : RemoveAddress(chain)

SpecStore == InitStore /\ [][NextStore]_vars

(***************************************************************************)
(* C4: the mapping is case-insensitive on chain keys: get_address(c) is    *)
(* the address of the most recent set_address on a chain equal to c when   *)
(* lowercased that no remove_address on such a chain followed, and None    *)
(* when there is none; every key held is lowercase.                        *)
(***************************************************************************)
SameChain(c, d) ==
    /\ Len(c) = Len(d)
    /\ \A i \in 1..Len(c) : char_to_lowercase(c[i]) = char_to_lowercase(d[i])

\* the calls on chain c, in order
CallsOn(c) == SelectSeq(calls, LAMBDA e : SameChain(e.chain, c))

ExpectedAddress(c) ==
    LET on == CallsOn(c)
    IN  IF on = <<>> \/ on[Len(on)].op = "remove"
        THEN None
        ELSE Some(on[Len(on)].address)

IsLowercase(k) == \A i \in 1..Len(k) : \A j \in 1..Len(UpperLetters) : k[i] # UpperLetters[j]

C4_StoreCaseInsensitive ==
    /\ \A c \in StoreChains : get_address(addresses, c) = ExpectedAddress(c)
    /\ \A k \in DOMAIN list_addresses(addresses) : IsLowercase(k)

\* set_address("Cardano", X) was called and get_address("CARDANO") returns X
C4_Witness ==
    /\ \E i \in 1..Len(calls) :
          /\ calls[i].op = "set"
          /\ calls[i].chain = <<"C","a","r","d","a","n","o">>
          /\ get_address(addresses, <<"C","A","R","D","A","N","O">>) = Some(calls[i].address)
    /\ \E i \in 1..Len(calls) : calls[i].op = "remove"

(***************************************************************************)
(* A direct call of validate_address.                                      *)
(***************************************************************************)
InitValidate ==
    /\ vpc = "called"
    /\ vaddr \in TriedAddresses
    /\ vresult = FALSE
    /\ StoreIdle
    /\ WalletIdle
    /\ BalanceIdle
    /\ SendIdle
    /\ RegistryIdle

ValidateAddress ==
    /\ vpc = "called"
    /\ vresult' = validate_address(vaddr)
    /\ vpc' = "done"
    /\ UNCHANGED vaddr
    /\ UNCHANGED varsStore
    /\ UNCHANGED varsWallet
    /\ UNCHANGED varsBalance
    /\ UNCHANGED varsSend
    /\ UNCHANGED varsRegistry

NextValidate == ValidateAddress

SpecValidate == InitValidate /\ [][NextValidate]_vars

(***************************************************************************)
(* C5: validate_address returns true exactly when the string starts with   *)
(* addr1 or addr_test1 and its length is between 50 and 120 inclusive; it  *)
(* accepts the well-formed mainnet and testnet addresses of the test and   *)
(* rejects "invalid" and the Bitcoin address.                              *)
(***************************************************************************)
BeginsWith(s, p) == \A i \in 1..Len(p) : i <= Len(s) /\ s[i] = p[i]

C5_ValidateAddressExact ==
    vpc = "done" =>
        /\ vresult <=>
              /\ BeginsWith(vaddr, <<"a","d","d","r","1">>)
                 \/ BeginsWith(vaddr, <<"a","d","d","r","_","t","e","s","t","1">>)
              /\ Len(vaddr) \in 50..120
        /\ vaddr \in {TestMainnetAddress, TestTestnetAddress} => vresult
        /\ vaddr \in {TestInvalidAddress, TestBitcoinAddress} => ~vresult

\* an accepted address of the largest accepted length has been validated
C5_Witness ==
    /\ vpc = "done"
    /\ vresult
    /\ Len(vaddr) = 120

(***************************************************************************)
(* Recovery phrases.  A phrase is the text typed or generated, as the      *)
(* sequence of its tokens: "w" is a word of the BIP-39 wordlist, "x" a     *)
(* word that is not in it, " " and "\n" are whitespace.  Which entropy the *)
(* words encode (ent) and whether their embedded checksum matches (sum_ok) *)
(* are carried beside the text: the checksum is a SHA-256 the model does   *)
(* not compute.                                                            *)
(***************************************************************************)
IsWhitespace(t) == t \in {" ", "\n"}

\* str::trim
RECURSIVE trim_start(_)
trim_start(text) ==
    IF text # <<>> /\ IsWhitespace(Head(text)) THEN trim_start(Tail(text)) ELSE text

RECURSIVE trim_end(_)
trim_end(text) ==
    IF text # <<>> /\ IsWhitespace(text[Len(text)])
    THEN trim_end(SubSeq(text, 1, Len(text) - 1))
    ELSE text

trim(text) == trim_end(trim_start(text))

\* str::split_whitespace: the words, in order
split_whitespace(text) == SelectSeq(text, LAMBDA t : ~IsWhitespace(t))

\* the number of random entropies and of typed phrases' entropies followed
MaxEntropy == 2

Entropies == 1..MaxEntropy

\* n words separated by single spaces, the word at position bad (if any) unknown
PlainText(n, bad) ==
    [i \in 1..(IF n = 0 THEN 0 ELSE 2 * n - 1) |->
        IF i % 2 = 0 THEN " " ELSE IF (i + 1) \div 2 = bad THEN "x" ELSE "w"]

\* the same words typed with leading, doubled and trailing whitespace
PaddedText(n) ==
    <<" ", " ">> \o [i \in 1..(3 * n) |-> IF i % 3 = 1 THEN "w" ELSE " "]

TriedWordCounts == {0, 11, 12, 15, 18, 21, 24, 25}

\* the lines read by import: read_line keeps the newline
TypedLines ==
    { [text |-> PlainText(n, 0) \o <<"\n">>, ent |-> e, sum_ok |-> TRUE] :
        n \in TriedWordCounts, e \in Entropies }
    \cup { [text |-> PaddedText(n) \o <<"\n">>, ent |-> 1, sum_ok |-> TRUE] :
        n \in {12, 13, 18} }
    \cup { [text |-> PlainText(n, n) \o <<"\n">>, ent |-> 1, sum_ok |-> TRUE] :
        n \in {12, 18} }
    \cup { [text |-> PlainText(n, 0) \o <<"\n">>, ent |-> 1, sum_ok |-> FALSE] :
        n \in {15, 21} }

\* the phrases handed to derive_address_from_mnemonic by a direct caller
DirectPhrases ==
    { [text |-> PlainText(n, 0), ent |-> e, sum_ok |-> TRUE] :
        n \in TriedWordCounts, e \in Entropies }
    \cup { [text |-> PlainText(n, 1), ent |-> 1, sum_ok |-> TRUE] :
        n \in {12, 24} }
    \cup { [text |-> PlainText(n, 0), ent |-> 1, sum_ok |-> FALSE] :
        n \in {12, 15} }

(***************************************************************************)
(* bip39::Mnemonic, the library called at cardano.rs:166, cardano.rs:169   *)
(* and new_wallet.rs:24-25.  BIP-39 mnemonics have 12, 15, 18, 21 or 24    *)
(* words.                                                                  *)
(***************************************************************************)
\* 12, 15, 18, 21 and 24 words are the BIP-39 lengths
is_invalid_word_count(word_count) ==
    word_count < 12 \/ word_count % 3 # 0 \/ word_count > 24

\* str::parse::<Mnemonic>(): word count, then the wordlist, then the checksum
mnemonic_parse(phrase) ==
    LET words == split_whitespace(phrase.text)
    IN  IF is_invalid_word_count(Len(words))
        THEN [ok |-> FALSE, err |-> "BadWordCount", words |-> 0, ent |-> 0]
        ELSE IF \E i \in 1..Len(words) : words[i] # "w"
        THEN [ok |-> FALSE, err |-> "UnknownWord", words |-> 0, ent |-> 0]
        ELSE IF ~phrase.sum_ok
        THEN [ok |-> FALSE, err |-> "InvalidChecksum", words |-> 0, ent |-> 0]
        ELSE [ok |-> TRUE, err |-> "none", words |-> Len(words), ent |-> phrase.ent]

\* Mnemonic::from_entropy_in(Language::English, &[u8; 32]): 24 words
mnemonic_from_entropy(e) == [ok |-> TRUE, err |-> "none", words |-> 24, ent |-> e]

\* Mnemonic::to_string: the words joined by single spaces
mnemonic_to_string(m) == [text |-> PlainText(m.words, 0), ent |-> m.ent, sum_ok |-> TRUE]

\* Mnemonic::to_seed(""): 64 bytes fixed by the mnemonic.  The key stretching
\* (PBKDF2-HMAC-SHA512) is stood for by a fixed table of bytes per mnemonic.
SeedLen == 64
to_seed(m) ==
    [i \in 1..SeedLen |-> (37 * m.ent + 11 * i * m.ent + 5 * i + 3 * m.words) % 256]

(***************************************************************************)
(* derive_address_from_mnemonic, simple_hash: cardano.rs:162-198           *)
(***************************************************************************)
\* u8 ^ u8
RECURSIVE xor(_, _)
xor(a, b) ==
    IF a = 0 THEN b
    ELSE IF b = 0 THEN a
    ELSE (((a % 2) + (b % 2)) % 2) + 2 * xor(a \div 2, b \div 2)

HashLen == 64
HashShift == 17

\* the loop of simple_hash from index i (0-based) on
RECURSIVE simple_hash_from(_, _, _)
simple_hash_from(result, input, i) ==
    IF i >= Len(input) THEN result
    ELSE LET byte == input[i + 1]
             r1 == [result EXCEPT ![(i % HashLen) + 1] = xor(@, byte)]
             r2 == [r1 EXCEPT ![((i + HashShift) % HashLen) + 1] = (@ + byte) % 256]
         IN  simple_hash_from(r2, input, i + 1)

simple_hash(input) == simple_hash_from([i \in 1..HashLen |-> 0], input, 0)

HexDigits == <<"0","1","2","3","4","5","6","7","8","9","a","b","c","d","e","f">>

\* hex::encode: two lowercase digits per byte, the high nibble first
hex_encode(bytes) ==
    [i \in 1..(2 * Len(bytes)) |->
        IF i % 2 = 1 THEN HexDigits[(bytes[(i + 1) \div 2] \div 16) + 1]
        ELSE HexDigits[(bytes[i \div 2] % 16) + 1]]

FakeAddressPrefix == <<"a","d","d","r","1","q","x">>
SeedUsedLen == 32
HashUsedLen == 50

\* the whole hash encoded, not its first 50 bytes
fake_address_whole_hash(seed) ==
    FakeAddressPrefix \o hex_encode(simple_hash(SubSeq(seed, 1, SeedUsedLen)))

\* the address made of the seed, cardano.rs:181-185
fake_address(seed) ==
    FakeAddressPrefix
    \o hex_encode(SubSeq(simple_hash(SubSeq(seed, 1, SeedUsedLen)), 1, HashUsedLen))

\* derive_address_from_mnemonic; seed is the Seed the call consumed (history)
derive_address_from_mnemonic(phrase) ==
    LET m == mnemonic_parse(phrase)
    IN  IF ~m.ok
        THEN [ok |-> FALSE, address |-> <<>>, err |-> m.err, seed |-> None]
        ELSE [ok |-> TRUE, address |-> fake_address(to_seed(m)), err |-> "none",
              seed |-> Some(to_seed(m))]

(***************************************************************************)
(* WalletStore::load and WalletStore::save, wallet/mod.rs:25-51.  The file *)
(* is absent, holds a store ("ok"), or exists and cannot be parsed         *)
(* ("corrupt").                                                            *)
(***************************************************************************)
\* load: io_ok is whether fs::read_to_string succeeds
load(file, io_ok) ==
    IF file.state = "absent" THEN [ok |-> TRUE, store |-> DefaultWalletStore]
    ELSE IF ~io_ok \/ file.state = "corrupt" THEN [ok |-> FALSE, store |-> DefaultWalletStore]
    ELSE [ok |-> TRUE, store |-> file.store]

\* Result::unwrap_or_default
unwrap_or_default(r) == IF r.ok THEN r.store ELSE DefaultWalletStore

\* what fs::create_dir_all and fs::write can do: write the whole file, fail
\* before touching it, or fail after truncating it
SaveOutcomes == {"written", "failed", "truncated"}

\* save: the file left, and whether Ok(()) is returned
save(store, file, outcome) ==
    IF outcome = "written" THEN [ok |-> TRUE, file |-> [state |-> "ok", store |-> store]]
    ELSE IF outcome = "truncated"
    THEN [ok |-> FALSE, file |-> [state |-> "corrupt", store |-> DefaultWalletStore]]
    ELSE [ok |-> FALSE, file |-> file]

CardanoKey == <<"c","a","r","d","a","n","o">>

\* new_wallet.rs:62-64 and import.rs:53-55: load, set_address, save
store_address(file, address, load_ok, outcome) ==
    LET store   == unwrap_or_default(load(file, load_ok))
        updated == [store EXCEPT !.addresses = set_address(@, CardanoKey, address)]
    IN  save(updated, file, outcome)

(***************************************************************************)
(* The new and import commands, commands/new_wallet.rs and                 *)
(* commands/import.rs.  Each returns the command record (input, result,    *)
(* the address printed, the Seed consumed) and the file left.              *)
(***************************************************************************)
\* the chain names matched by execute, new_wallet.rs:11-16 and import.rs:11-16
dispatch(chain) ==
    LET c == to_lowercase(chain)
    IN  IF c \in {<<"c","a","r","d","a","n","o">>, <<"a","d","a">>} THEN "cardano"
        ELSE IF c \in {<<"b","i","t","c","o","i","n">>, <<"b","t","c">>} THEN "ComingSoon"
        ELSE IF c \in {<<"s","o","l","a","n","a">>, <<"s","o","l">>} THEN "ComingSoon"
        ELSE "UnknownChain"

\* create_cardano_wallet, new_wallet.rs:19-72
create_cardano_wallet(file, e, rand_ok, load_ok, outcome) ==
    LET phrase == mnemonic_to_string(mnemonic_from_entropy(e))
        d      == derive_address_from_mnemonic(phrase)
        saved  == store_address(file, d.address, load_ok, outcome)
    IN  IF ~rand_ok
        THEN [result |-> "EntropyFailed", phrase |-> <<>>, printed |-> None,
              seed |-> None, file |-> file]
        ELSE IF ~d.ok
        THEN [result |-> "InvalidMnemonic", phrase |-> phrase.text, printed |-> None,
              seed |-> None, file |-> file]
        ELSE [result |-> IF saved.ok THEN "Ok" ELSE "SaveFailed",
              phrase |-> phrase.text, printed |-> Some(d.address),
              seed |-> d.seed, file |-> saved.file]

\* the word-count test of import.rs:37-38
import_word_count_ok(word_count) ==
    ~(word_count # 24 /\ word_count # 12 /\ word_count # 15)

\* import_cardano_wallet, import.rs:19-63; line is what read_line read
import_cardano_wallet(file, line, read_ok, load_ok, outcome) ==
    LET phrase == [line EXCEPT !.text = trim(@)]
        word_count == Len(split_whitespace(phrase.text))
        d      == derive_address_from_mnemonic(phrase)
        saved  == store_address(file, d.address, load_ok, outcome)
    IN  IF ~read_ok
        THEN [result |-> "IoError", phrase |-> <<>>, printed |-> None,
              seed |-> None, file |-> file]
        ELSE IF ~import_word_count_ok(word_count)
        THEN [result |-> "InvalidWordCount", phrase |-> phrase.text, printed |-> None,
              seed |-> None, file |-> file]
        ELSE IF ~d.ok
        THEN [result |-> "InvalidMnemonic", phrase |-> phrase.text, printed |-> None,
              seed |-> None, file |-> file]
        ELSE [result |-> IF saved.ok THEN "Ok" ELSE "SaveFailed",
              phrase |-> phrase.text, printed |-> Some(d.address),
              seed |-> d.seed, file |-> saved.file]

\* the command refused by execute: nothing read, printed or written
refused(file, why) ==
    [result |-> why, phrase |-> <<>>, printed |-> None, seed |-> None, file |-> file]

CommandChains ==
    { <<"c","a","r","d","a","n","o">>, <<"A","D","A">>, <<"B","i","t","c","o","i","n">>,
      <<"s","o","l">>, <<"d","o","g","e">> }

Finish(name, chain, r) ==
    /\ cmd' = [name |-> name, chain |-> chain, phrase |-> r.phrase, result |-> r.result,
               printed |-> r.printed, seed |-> r.seed]
    /\ storedSeed' = IF r.result = "Ok" THEN r.seed
                     ELSE IF r.file.state = "ok" THEN storedSeed ELSE None
    /\ disk' = r.file
    /\ derived' = NotDerived
    /\ UNCHANGED varsValidate
    /\ UNCHANGED varsStore
    /\ UNCHANGED varsBalance
    /\ UNCHANGED varsSend
    /\ UNCHANGED varsRegistry

\* begin new --chain <chain>
New(chain, e, rand_ok, load_ok, outcome) ==
    Finish("new", chain,
           IF dispatch(chain) = "cardano"
           THEN create_cardano_wallet(disk, e, rand_ok, load_ok, outcome)
           ELSE refused(disk, dispatch(chain)))

\* begin import --chain <chain>
Import(chain, line, read_ok, load_ok, outcome) ==
    Finish("import", chain,
           IF dispatch(chain) = "cardano"
           THEN import_cardano_wallet(disk, line, read_ok, load_ok, outcome)
           ELSE refused(disk, dispatch(chain)))

\* a direct call of the public function derive_address_from_mnemonic
Derive(phrase) ==
    /\ derived' = [called |-> TRUE, phrase |-> phrase.text,
                   ok |-> derive_address_from_mnemonic(phrase).ok,
                   address |-> derive_address_from_mnemonic(phrase).address,
                   err |-> derive_address_from_mnemonic(phrase).err]
    /\ cmd' = NoCommand
    /\ UNCHANGED <<disk, storedSeed>>
    /\ UNCHANGED varsValidate
    /\ UNCHANGED varsStore
    /\ UNCHANGED varsBalance
    /\ UNCHANGED varsSend
    /\ UNCHANGED varsRegistry

InitWallet ==
    /\ WalletIdle
    /\ ValidateIdle
    /\ StoreIdle
    /\ BalanceIdle
    /\ SendIdle
    /\ RegistryIdle

\* The inputs of a command, each outcome of the environment listed once: a
\* refused chain reads nothing else; a failed getrandom or read_line, or a
\* phrase that yields no address, ends the command before load and save.
NewInputs ==
    { in \in CommandChains \X Entropies \X BOOLEAN \X BOOLEAN \X SaveOutcomes :
        /\ dispatch(in[1]) # "cardano" => in[2] = 1 /\ in[3]
        /\ dispatch(in[1]) # "cardano" \/ ~in[3] => in[4] /\ in[5] = "written" }

Storable(line) ==
    /\ import_word_count_ok(Len(split_whitespace(line.text)))
    /\ mnemonic_parse(line).ok

FirstLine == CHOOSE line \in TypedLines : Storable(line)

ImportInputs ==
    { in \in CommandChains \X TypedLines \X BOOLEAN \X BOOLEAN \X SaveOutcomes :
        /\ dispatch(in[1]) # "cardano" => in[3]
        /\ dispatch(in[1]) # "cardano" \/ ~in[3] => in[2] = FirstLine
        /\ dispatch(in[1]) # "cardano" \/ ~in[3] \/ ~Storable(in[2])
              => in[4] /\ in[5] = "written" }

NextWallet ==
    \/ \E in \in NewInputs : New(in[1], in[2], in[3], in[4], in[5])
    \/ \E in \in ImportInputs : Import(in[1], in[2], in[3], in[4], in[5])
    \/ \E phrase \in DirectPhrases : Derive(phrase)

SpecWallet == InitWallet /\ [][NextWallet]_vars

\* the addresses the file holds
StoredAddresses == IF disk.state = "ok" THEN disk.store.addresses ELSE EmptyStore

(***************************************************************************)
(* C1: after any sequence of new and import commands, every address held   *)
(* in the wallet store, and every address printed or returned to the       *)
(* caller, passes validate_address.                                        *)
(***************************************************************************)
C1_AddressesPassValidator ==
    /\ \A k \in DOMAIN StoredAddresses : validate_address(StoredAddresses[k])
    /\ cmd.printed # None => validate_address(cmd.printed[1])
    /\ derived.ok => validate_address(derived.address)

\* an import has printed its address and the file holds it
C1_Witness ==
    /\ cmd.name = "import"
    /\ cmd.result = "Ok"
    /\ get_address(StoredAddresses, CardanoKey) = cmd.printed

(***************************************************************************)
(* C2: the store persists no secret: the stored address does not carry the *)
(* bytes of the Seed it was made of, and the first 32 bytes of the Seed    *)
(* cannot be read back out of it.                                          *)
(***************************************************************************)
HexValue(c) == (CHOOSE i \in 1..16 : HexDigits[i] = c) - 1

\* the bytes a hex string encodes
HexDecode(text) ==
    [i \in 1..(Len(text) \div 2) |-> 16 * HexValue(text[2 * i - 1]) + HexValue(text[2 * i])]

\* the bytes after the addr1qx prefix of an address
Payload(address) == HexDecode(SubSeq(address, Len(FakeAddressPrefix) + 1, Len(address)))

\* bytes 1..17 and 35..49 of the payload, read as 32 bytes of a seed
ReadBack(address) ==
    SubSeq(Payload(address), 1, 17) \o SubSeq(Payload(address), 35, 49)

C2_StoredAddressHidesSeed ==
    (CardanoKey \in DOMAIN StoredAddresses /\ storedSeed # None) =>
        /\ \A i \in 1..32 : Payload(StoredAddresses[CardanoKey])[i] # storedSeed[1][i]
        /\ ReadBack(StoredAddresses[CardanoKey]) # SubSeq(storedSeed[1], 1, 32)

(***************************************************************************)
(* C6: only phrases of 12, 15 or 24 whitespace-separated words are         *)
(* accepted: a phrase of any other word count is rejected with the         *)
(* invalid-word-count failure and yields no address, by import and by a    *)
(* direct call of derive_address_from_mnemonic.                            *)
(***************************************************************************)
WordCount(text) == Cardinality({i \in 1..Len(text) : text[i] \notin {" ", "\n"}})

C6_OnlyThreeWordCounts ==
    /\ ( /\ cmd.name = "import"
         /\ cmd.result \notin {"ComingSoon", "UnknownChain", "IoError"}
         /\ WordCount(cmd.phrase) \notin {12, 15, 24} )
        => (cmd.result = "InvalidWordCount" /\ cmd.printed = None)
    /\ (derived.called /\ WordCount(derived.phrase) \notin {12, 15, 24})
        => (~derived.ok /\ derived.err = "BadWordCount" /\ derived.address = <<>>)

\* the half of C6 that is about import alone
C6_ImportPath ==
    ( /\ cmd.name = "import"
      /\ cmd.result \notin {"ComingSoon", "UnknownChain", "IoError"}
      /\ WordCount(cmd.phrase) \notin {12, 15, 24} )
        => (cmd.result = "InvalidWordCount" /\ cmd.printed = None)

(***************************************************************************)
(* Numbers wider than the model checker's integers.  A natural number is   *)
(* the sequence of its binary digits, most significant first, without      *)
(* leading zeros; zero is the empty sequence.                              *)
(***************************************************************************)
StripZeros(bits) ==
    IF \A i \in 1..Len(bits) : bits[i] = 0 THEN <<>>
    ELSE SubSeq(bits,
                CHOOSE i \in 1..Len(bits) :
                    bits[i] = 1 /\ \A j \in 1..(i - 1) : bits[j] = 0,
                Len(bits))

\* a small number as bits
RECURSIVE ToBits(_)
ToBits(n) == IF n = 0 THEN <<>> ELSE Append(ToBits(n \div 2), n % 2)

\* The arithmetic goes over a number eight binary digits at a time, so that
\* every intermediate value stays a small number.
Chunk == 8

\* the value of the digits a..b of bits, at most Chunk of them
RECURSIVE BitsVal(_, _, _)
BitsVal(bits, a, b) ==
    IF b < a THEN 0 ELSE 2 * BitsVal(bits, a, b - 1) + bits[b]

\* the digit of bits that stands for 2^p, 0 beyond its length
BitAt(bits, p) == IF p < Len(bits) THEN bits[Len(bits) - p] ELSE 0

\* the value of the ci-th chunk of bits, counted from the low end
RECURSIVE LowChunkVal(_, _, _)
LowChunkVal(bits, ci, n) ==
    IF n = 0 THEN 0
    ELSE 2 * LowChunkVal(bits, ci, n - 1) + BitAt(bits, (ci - 1) * Chunk + Chunk - n)

\* chunk ci of bits times k, plus what the chunks below carry into it (c into
\* the lowest): its low Chunk digits are chunk ci of the product
RECURSIVE MulChunk(_, _, _, _)
MulChunk(bits, ci, k, c) ==
    IF ci = 0 THEN c * (2 ^ Chunk)
    ELSE LowChunkVal(bits, ci, Chunk) * k + (MulChunk(bits, ci - 1, k, c) \div (2 ^ Chunk))

\* bits * k + c for small k and c
MulAdd(bits, k, c) ==
    LET nc == (Len(bits) + Chunk - 1) \div Chunk
    IN  StripZeros(
            ToBits(MulChunk(bits, nc, k, c) \div (2 ^ Chunk))
            \o [i \in 1..(nc * Chunk) |->
                  LET p == nc * Chunk - i
                  IN  (MulChunk(bits, (p \div Chunk) + 1, k, c) \div (2 ^ (p % Chunk))) % 2])

\* the remainder of the first i digits of bits divided by a small d
RECURSIVE RemUpTo(_, _, _)
RemUpTo(bits, i, d) ==
    IF i <= 0 THEN 0
    ELSE LET a == IF i > Chunk THEN i - Chunk + 1 ELSE 1
         IN  (RemUpTo(bits, a - 1, d) * (2 ^ (i - a + 1)) + BitsVal(bits, a, i)) % d

\* long division of bits by a small d: quotient digits and remainder
DivSmall(bits, d) ==
    [q |-> StripZeros([i \in 1..Len(bits) |->
                          IF 2 * RemUpTo(bits, i - 1, d) + bits[i] >= d THEN 1 ELSE 0]),
     r |-> RemUpTo(bits, Len(bits), d)]

\* bits * 2^n
ShiftLeft(bits, n) == IF bits = <<>> THEN <<>> ELSE bits \o [i \in 1..n |-> 0]

\* whether a digit 1 stands at a position from i on
AnyOneFrom(bits, i) == \E j \in i..Len(bits) : bits[j] = 1

\* the integer nearest to bits / 2^n, a tie going to the even one
ShiftRightRound(bits, n) ==
    IF n = 0 THEN bits
    ELSE IF n > Len(bits) THEN <<>>
    ELSE LET keep == SubSeq(bits, 1, Len(bits) - n)
             half == bits[Len(bits) - n + 1] = 1
             rest == AnyOneFrom(bits, Len(bits) - n + 2)
             odd  == keep # <<>> /\ keep[Len(keep)] = 1
         IN  IF half /\ (rest \/ odd) THEN MulAdd(keep, 1, 1) ELSE keep

DecimalDigits == <<"0","1","2","3","4","5","6","7","8","9">>

IsDigit(c) == \E i \in 1..10 : DecimalDigits[i] = c
DigitValue(c) == (CHOOSE i \in 1..10 : DecimalDigits[i] = c) - 1

\* a small number in decimal, at least width digits
RECURSIVE SmallToDecimal(_, _)
SmallToDecimal(n, width) ==
    IF n = 0 /\ width <= 0 THEN <<>>
    ELSE Append(SmallToDecimal(n \div 10, width - 1), DecimalDigits[(n % 10) + 1])

\* a number in decimal, "0" for zero
RECURSIVE ToDecimal(_)
ToDecimal(bits) ==
    IF bits = <<>> THEN <<>>
    ELSE LET d == DivSmall(bits, 10)
         IN  Append(ToDecimal(d.q), DecimalDigits[d.r + 1])

(***************************************************************************)
(* The lovelace arithmetic of get_balance, cardano.rs:115-117.             *)
(***************************************************************************)
U64Bits == 64

\* the value of at most four decimal digits, a small number
RECURSIVE SmallValue(_)
SmallValue(digits) ==
    IF digits = <<>> THEN 0
    ELSE 10 * SmallValue(SubSeq(digits, 1, Len(digits) - 1)) + DigitValue(digits[Len(digits)])

\* the value of the first i of a run of decimal digits, four digits at a time
RECURSIVE DigitsValue(_, _)
DigitsValue(digits, i) ==
    IF i <= 0 THEN <<>>
    ELSE LET a == IF i > 4 THEN i - 3 ELSE 1
         IN  MulAdd(DigitsValue(digits, a - 1), 10 ^ (i - a + 1),
                    SmallValue(SubSeq(digits, a, i)))

\* str::parse::<u64>(): an optional +, then digits only, no overflow
parse_u64(text) ==
    LET digits == IF text # <<>> /\ Head(text) = "+" THEN Tail(text) ELSE text
    IN  IF digits = <<>> \/ \E i \in 1..Len(digits) : ~IsDigit(digits[i])
        THEN [ok |-> FALSE, value |-> <<>>]
        ELSE IF Len(DigitsValue(digits, Len(digits))) > U64Bits
        THEN [ok |-> FALSE, value |-> <<>>]
        ELSE [ok |-> TRUE, value |-> DigitsValue(digits, Len(digits))]

\* Result::unwrap_or(0)
unwrap_or_zero(r) == IF r.ok THEN r.value ELSE <<>>

\* An f64 is [m, e]: the value m * 2^e with m of at most 53 binary digits.
F64Mantissa == 53

\* the f64 nearest to bits * 2^e (plus a nonzero rest below it when sticky),
\* a tie going to the even mantissa
round_f64(bits, e, sticky) ==
    IF Len(bits) <= F64Mantissa THEN [m |-> bits, e |-> e]
    ELSE LET drop == Len(bits) - F64Mantissa
             keep == SubSeq(bits, 1, F64Mantissa)
             half == bits[F64Mantissa + 1] = 1
             rest == sticky \/ AnyOneFrom(bits, F64Mantissa + 2)
             up   == half /\ (rest \/ keep[F64Mantissa] = 1)
             m1   == IF up THEN MulAdd(keep, 1, 1) ELSE keep
         IN  IF Len(m1) > F64Mantissa
             THEN [m |-> SubSeq(m1, 1, F64Mantissa), e |-> e + drop + 1]
             ELSE [m |-> m1, e |-> e + drop]

\* lovelace as f64
u64_as_f64(bits) == round_f64(bits, 0, FALSE)

LovelacePerAda == 1000000
AdaDecimals == 6

\* the digits the quotient is computed to before it is rounded
QuotientWidth == 76

\* f / 1_000_000.0, correctly rounded
f64_div_million(f) ==
    IF f.m = <<>> THEN f
    ELSE LET s == QuotientWidth - Len(f.m)
             d == DivSmall(ShiftLeft(f.m, s), LovelacePerAda)
         IN  round_f64(d.q, f.e - s, d.r # 0)

\* format!("{:.6}", f): the exact value of f rounded to six decimals
format_f64_6(f) ==
    LET scaled  == MulAdd(f.m, LovelacePerAda, 0)
        micro   == IF f.e >= 0 THEN ShiftLeft(scaled, f.e)
                   ELSE ShiftRightRound(scaled, 0 - f.e)
        whole   == DivSmall(micro, LovelacePerAda)
    IN  (IF whole.q = <<>> THEN <<"0">> ELSE ToDecimal(whole.q))
        \o <<".">> \o SmallToDecimal(whole.r, AdaDecimals)

\* cardano.rs:115-117: parse, convert to f64, divide, format
lovelace_to_ada(quantity) ==
    format_f64_6(f64_div_million(u64_as_f64(unwrap_or_zero(parse_u64(quantity)))))


(***************************************************************************)
(* Native tokens: chains/cardano.rs, get_balance 119-131 and               *)
(* shorten_asset_name 200-206.  Units are ASCII (hex in practice), so the  *)
(* byte lengths the code compares are character counts.                    *)
(***************************************************************************)
LovelaceUnit == <<"l", "o", "v", "e", "l", "a", "c", "e">>
Ellipsis == <<".", ".", ".">>
SymbolMaxLen == 20
SymbolKeptLen == 16
PolicyIdLen == 56

shorten_asset_name_from_twenty(unit) ==
    IF Len(unit) >= SymbolMaxLen
    THEN SubSeq(unit, 1, SymbolKeptLen) \o Ellipsis
    ELSE unit

\* cardano.rs:200-206
shorten_asset_name(unit) ==
    IF Len(unit) > SymbolMaxLen
    THEN SubSeq(unit, 1, SymbolKeptLen) \o Ellipsis
    ELSE unit

\* cardano.rs:120-124
policy_id_of(unit) ==
    IF Len(unit) >= PolicyIdLen THEN Some(SubSeq(unit, 1, PolicyIdLen)) ELSE None

\* cardano.rs:126-130
token_balance(entry) ==
    [symbol |-> shorten_asset_name(entry.unit),
     amount |-> entry.quantity,
     policy_id |-> policy_id_of(entry.unit)]

\* the lovelace quantities the indexer is tried with
LovelaceQuantities ==
    { <<"0">>, <<"1">>, <<"1","5","0","0","0","0","0">>, <<"0","0","7">>,
      <<"1","2","3","4","5","6","7","8","9">>, <<"1",".","5">>,
      <<"8","5","8","9","9","3","4","5","9","2","0","0","0","0","0","1">>,
      <<"9","0","0","7","1","9","9","2","5","4","7","4","0","9","9","3">>,
      <<"1","8","4","4","6","7","4","4","0","7","3","7","0","9","5","5","1","6","1","5">>,
      <<"1","8","4","4","6","7","4","4","0","7","3","7","0","9","5","5","1","6","1","6">>,
      <<"a","b","c">>, <<>>, <<"-","5">>, <<"+","7">> }

\* cardano.rs:115-117 on each of these quantities, computed once
converted == [quantity \in LovelaceQuantities |-> lovelace_to_ada(quantity)]

AdaSymbol == "ADA"
InitialAdaAmount == <<"0">>

\* cardano.rs:109-132: the loop over data.amount, after its first n entries
RECURSIVE fold_amounts(_, _)
fold_amounts(amount, n) ==
    IF n = 0
    THEN [ada_amount |-> InitialAdaAmount, tokens |-> <<>>]
    ELSE LET before == fold_amounts(amount, n - 1)
             entry == amount[n]
         IN  IF entry.unit = LovelaceUnit
             THEN [before EXCEPT !.ada_amount = converted[entry.quantity]]
             ELSE [before EXCEPT !.tokens = Append(@, token_balance(entry))]

\* cardano.rs:109-138
balance_of(amount) ==
    LET done == fold_amounts(amount, Len(amount))
    IN  [symbol |-> AdaSymbol, amount |-> done.ada_amount, tokens |-> done.tokens]

(***************************************************************************)
(* The adapter and the indexer: Cardano::new 26-40, blockfrost_get 42-60,  *)
(* get_balance 91-107.                                                     *)
(***************************************************************************)
BLOCKFROST_MAINNET == "https://cardano-mainnet.blockfrost.io/api/v0"
BLOCKFROST_PREVIEW == "https://cardano-preview.blockfrost.io/api/v0"

\* cardano.rs:26-40; env gives each variable as an Option
new(env) ==
    LET network == IF env.CARDANO_NETWORK = None THEN "mainnet" ELSE env.CARDANO_NETWORK[1]
    IN  [api_url |-> IF network \in {"preview", "testnet"}
                     THEN BLOCKFROST_PREVIEW
                     ELSE BLOCKFROST_MAINNET,
         api_key |-> env.BLOCKFROST_API_KEY]

AddressesEndpoint == <<"/", "a", "d", "d", "r", "e", "s", "s", "e", "s", "/">>

\* cardano.rs:43-49: the request blockfrost_get builds
request_for(self, endpoint) ==
    [base |-> self.api_url, endpoint |-> endpoint, project_id |-> self.api_key]

Failure(err) == [NoResult EXCEPT !.err = err]
Pending == [NoResult EXCEPT !.err = "pending"]

get_balance_key_first(self, address) ==
    IF self.api_key = None
    THEN [result |-> Failure("MissingApiKey"), requests |-> <<>>]
    ELSE [result |-> Pending,
          requests |-> <<request_for(self, AddressesEndpoint \o address)>>]

\* cardano.rs:91-107 up to the await: the checks and the request
get_balance_begin(self, address) ==
    IF ~validate_address(address)
    THEN [result |-> Failure("InvalidAddress"), requests |-> <<>>]
    ELSE IF self.api_key = None
    THEN [result |-> Failure("MissingApiKey"), requests |-> <<>>]
    ELSE [result |-> Pending,
          requests |-> <<request_for(self, AddressesEndpoint \o address)>>]

\* http::StatusCode::is_success, used at cardano.rs:53
is_success(status) == status >= 200 /\ status <= 299

\* cardano.rs:55: response.text().await.unwrap_or_default()
text_or_default(resp) == IF resp.text_read THEN resp.text ELSE ""

get_balance_end_lenient(resp) ==
    IF resp.kind = "transport_error" \/ ~is_success(resp.status) \/ ~resp.parsable
    THEN [NoResult EXCEPT !.ok = TRUE, !.balance = balance_of(<<>>)]
    ELSE [NoResult EXCEPT !.ok = TRUE, !.balance = balance_of(resp.amount)]

\* cardano.rs:51-59 and 107-138: what the call returns once the indexer answered
get_balance_end(resp) ==
    IF resp.kind = "transport_error"
    THEN Failure("Transport")
    ELSE IF ~is_success(resp.status)
    THEN [NoResult EXCEPT !.err = "BlockfrostApiError", !.status = resp.status,
                          !.text = text_or_default(resp)]
    ELSE IF ~resp.parsable
    THEN Failure("Decode")
    ELSE [NoResult EXCEPT !.ok = TRUE, !.balance = balance_of(resp.amount)]


(***************************************************************************)
(* The balance calls that are tried.                                       *)
(***************************************************************************)
MaxEntries == 2

Environments ==
    [BLOCKFROST_API_KEY : {None, Some("project-key")},
     CARDANO_NETWORK : {None, Some("preview"), Some("testnet"), Some("mainnet")}]

BalanceAddresses ==
    { TestMainnetAddress, TestInvalidAddress, TestBitcoinAddress,
      AddrPrefixMainnet \o Repeat("q", MinAddressLen - 1 - Len(AddrPrefixMainnet)),
      AddrPrefixTestnet \o Repeat("q", MaxAddressLen + 1 - Len(AddrPrefixTestnet)) }

PolicyA == Repeat("a", PolicyIdLen)
TokenUnits ==
    { Repeat("b", SymbolMaxLen),
      Repeat("b", SymbolMaxLen + 1),
      Repeat("c", PolicyIdLen - 1),
      PolicyA,
      PolicyA \o <<"4","1">>,
      PolicyA \o <<"4","2">> }

Entries ==
    [unit : {LovelaceUnit}, quantity : LovelaceQuantities]
    \cup [unit : TokenUnits, quantity : {<<"1">>}]
    \cup [unit : {<<"t","o","k">>}, quantity : {<<"x">>}]

AmountLists == UNION { [1..n -> Entries] : n \in 0..MaxEntries }

ErrorTexts == {"", "Project token invalid"}

Responses ==
    { [NoResponse EXCEPT !.kind = "transport_error"] }
    \cup { [NoResponse EXCEPT !.kind = "http", !.status = s, !.text = t, !.text_read = TRUE] :
             s \in {403, 404, 500}, t \in ErrorTexts }
    \cup { [NoResponse EXCEPT !.kind = "http", !.status = s, !.text = "Project token invalid"] :
             s \in {403, 500} }
    \cup { [NoResponse EXCEPT !.kind = "http", !.status = 200] }
    \cup { [NoResponse EXCEPT !.kind = "http", !.status = 200, !.parsable = TRUE, !.amount = a] :
             a \in AmountLists }

\* a caller awaits adapter.get_balance(address): cardano.rs:91-107
GetBalance(address) ==
    /\ bpc # "awaiting"
    /\ LET r == get_balance_begin(adapter, address)
       IN  /\ bresult' = r.result
           /\ requests' = r.requests
           /\ bpc' = IF r.requests = <<>> THEN "done" ELSE "awaiting"
    /\ baddr' = address
    /\ response' = NoResponse
    /\ UNCHANGED <<adapter, notes>>
    /\ UNCHANGED varsValidate
    /\ UNCHANGED varsStore
    /\ UNCHANGED varsWallet
    /\ UNCHANGED varsSend
    /\ UNCHANGED varsRegistry

\* the indexer answers and the call returns: cardano.rs:51-59, 107-138
Respond(resp) ==
    /\ bpc = "awaiting"
    /\ response' = resp
    /\ bresult' = get_balance_end(resp)
    /\ bpc' = "done"
    /\ UNCHANGED <<adapter, baddr, requests, notes>>
    /\ UNCHANGED varsValidate
    /\ UNCHANGED varsStore
    /\ UNCHANGED varsWallet
    /\ UNCHANGED varsSend
    /\ UNCHANGED varsRegistry

InitBalance ==
    /\ adapter \in { new(env) : env \in Environments }
    /\ bpc = "idle"
    /\ baddr = <<>>
    /\ requests = <<>>
    /\ response = NoResponse
    /\ bresult = NoResult
    /\ notes = <<>>
    /\ ValidateIdle
    /\ StoreIdle
    /\ WalletIdle
    /\ SendIdle
    /\ RegistryIdle

NextBalance ==
    \/ \E address \in BalanceAddresses : GetBalance(address)
    \/ \E resp \in Responses : Respond(resp)

SpecBalance == InitBalance /\ [][NextBalance]_vars


(***************************************************************************)
(* Properties of get_balance.                                              *)
(***************************************************************************)
PassesValidation(a) ==
    /\ BeginsWith(a, <<"a","d","d","r","1">>)
       \/ BeginsWith(a, <<"a","d","d","r","_","t","e","s","t","1">>)
    /\ Len(a) \in 50..120

\* C3: get_balance issues a request to the indexer only if the address has
\* passed validate_address and an API key is configured; an invalid address
\* returns the invalid-address error and a missing key returns the
\* missing-credential error, both with zero requests issued.
C3_RequestOnlyAfterChecks ==
    /\ requests # <<>> => PassesValidation(baddr) /\ adapter.api_key # None
    /\ (bpc = "done" /\ ~PassesValidation(baddr)) =>
           /\ ~bresult.ok
           /\ bresult.err = "InvalidAddress"
           /\ requests = <<>>
    /\ (bpc = "done" /\ PassesValidation(baddr) /\ adapter.api_key = None) =>
           /\ ~bresult.ok
           /\ bresult.err = "MissingApiKey"
           /\ requests = <<>>

C3_Witness ==
    /\ bpc = "done"
    /\ PassesValidation(baddr)
    /\ adapter.api_key = None
    /\ bresult.err = "MissingApiKey"
    /\ requests = <<>>

Answered == bpc = "done" /\ response.kind = "http" /\ response.status = 200 /\ response.parsable

LovelaceEntries(amount) == SelectSeq(amount, LAMBDA e : e.unit = LovelaceUnit)
TokenEntries(amount) == SelectSeq(amount, LAMBDA e : e.unit # LovelaceUnit)

AllDigits(text) == \A i \in 1..Len(text) : IsDigit(text[i])

WithoutLeadingZeros(text) ==
    IF \A i \in 1..Len(text) : text[i] = "0"
    THEN <<>>
    ELSE SubSeq(text, CHOOSE i \in 1..Len(text) :
                          text[i] # "0" /\ \A j \in 1..(i - 1) : text[j] = "0",
                Len(text))

U64MaxText ==
    <<"1","8","4","4","6","7","4","4","0","7","3","7","0","9","5","5","1","6","1","5">>

\* decimal texts of the same length, compared as numbers
DecimalAtMost(a, b) ==
    \/ a = b
    \/ \E i \in 1..Len(a) :
           /\ DigitValue(a[i]) < DigitValue(b[i])
           /\ \A j \in 1..(i - 1) : a[j] = b[j]

\* a decimal integer in the u64 range
IsDecimalU64(text) ==
    /\ Len(text) > 0
    /\ AllDigits(text)
    /\ LET s == WithoutLeadingZeros(text)
       IN  \/ Len(s) < Len(U64MaxText)
           \/ Len(s) = Len(U64MaxText) /\ DecimalAtMost(s, U64MaxText)

\* q div 1,000,000, a dot, q mod 1,000,000 on six digits, from the decimal text of q
ExactAda(text) ==
    LET s == WithoutLeadingZeros(text)
        p == IF Len(s) < 7 THEN Repeat("0", 7 - Len(s)) \o s ELSE s
    IN  SubSeq(p, 1, Len(p) - 6) \o <<".">> \o SubSeq(p, Len(p) - 5, Len(p))

SixDecimals(text) ==
    /\ Len(text) >= 8
    /\ text[Len(text) - 6] = "."
    /\ \A i \in 1..Len(text) : i # Len(text) - 6 => IsDigit(text[i])

\* C7: for every successful response the native amount has exactly six
\* fractional digits, and for a lovelace quantity q in the u64 range it is
\* q div 1,000,000, a dot and q mod 1,000,000 on six digits, without loss;
\* a response with no lovelace entry has the six-decimal format too.
C7_ExactSixDecimals ==
    (Answered /\ bresult.ok) =>
        /\ SixDecimals(bresult.balance.amount)
        /\ LET l == LovelaceEntries(response.amount)
           IN  (Len(l) = 1 /\ IsDecimalU64(l[1].quantity)) =>
                   bresult.balance.amount = ExactAda(l[1].quantity)

\* C8: every entry whose unit is not lovelace becomes exactly one
\* TokenBalance, in response order, with the quantity unchanged; the symbol
\* is the unit when it has at most 20 characters and otherwise its first 16
\* characters followed by "..."; the policy_id is the unit's first 56
\* characters when it has at least 56 and is absent otherwise.
C8_TokenPerEntry ==
    (Answered /\ bresult.ok) =>
        LET entries == TokenEntries(response.amount)
            tokens == bresult.balance.tokens
        IN  /\ Len(tokens) = Len(entries)
            /\ \A i \in 1..Len(entries) :
                   LET unit == entries[i].unit
                       token == tokens[i]
                   IN  /\ token.amount = entries[i].quantity
                       /\ Len(unit) <= 20 => token.symbol = unit
                       /\ Len(unit) > 20 =>
                              /\ Len(token.symbol) = 19
                              /\ \A j \in 1..16 : token.symbol[j] = unit[j]
                              /\ \A j \in 17..19 : token.symbol[j] = "."
                       /\ Len(unit) >= 56 =>
                              /\ token.policy_id # None
                              /\ Len(token.policy_id[1]) = 56
                              /\ BeginsWith(unit, token.policy_id[1])
                       /\ Len(unit) < 56 => token.policy_id = None

C8_Witness ==
    /\ Answered
    /\ bresult.ok
    /\ Len(response.amount) = 2
    /\ Len(bresult.balance.tokens) = 2
    /\ Len(response.amount[1].unit) > 56
    /\ Len(response.amount[2].unit) = 20
    /\ bresult.balance.tokens[1].policy_id # None
    /\ bresult.balance.tokens[2].symbol = response.amount[2].unit

\* C9: the untruncated unit can be reconstructed from the TokenBalance, so
\* two entries with different units never produce TokenBalances with the
\* same symbol and policy_id.
C9_UnitRecoverable ==
    (Answered /\ bresult.ok) =>
        LET entries == TokenEntries(response.amount)
            tokens == bresult.balance.tokens
        IN  \A i, j \in 1..Len(entries) :
                (i <= Len(tokens) /\ j <= Len(tokens) /\ entries[i].unit # entries[j].unit) =>
                    ~ (/\ tokens[i].symbol = tokens[j].symbol
                       /\ tokens[i].policy_id = tokens[j].policy_id)

MalformedLovelace(amount) ==
    LET l == LovelaceEntries(amount)
    IN  /\ Len(l) = 1
        /\ ~IsDecimalU64(l[1].quantity)

IsZeroAmount(text) == text \in {<<"0">>, <<"0",".","0","0","0","0","0","0">>}

\* the part of C10 about the returned Balance; u64::from_str reads a quantity
\* with a leading plus sign as the number, so that one is not substituted
C10_ZeroSubstituted ==
    (/\ Answered
     /\ MalformedLovelace(response.amount)
     /\ ~BeginsWith(LovelaceEntries(response.amount)[1].quantity, <<"+">>)) =>
        /\ bresult.ok
        /\ IsZeroAmount(bresult.balance.amount)
        /\ bresult.balance.tokens =
               balance_of(TokenEntries(response.amount)).tokens

\* C10: a malformed, non-numeric or out-of-range lovelace quantity does not
\* fail get_balance: the Balance is complete, its native amount is zero, its
\* tokens are unaffected, and the substitution is reported through an
\* observable error note.
C10_ZeroWithNote ==
    (Answered /\ MalformedLovelace(response.amount)) =>
        /\ bresult.ok
        /\ IsZeroAmount(bresult.balance.amount)
        /\ bresult.balance.tokens =
               balance_of(TokenEntries(response.amount)).tokens
        /\ notes # <<>>


(***************************************************************************)
(* Cardano::send, chains/cardano.rs:141-148, and TransactionStatus,        *)
(* chains/mod.rs:37-42.                                                    *)
(***************************************************************************)
TransactionStatuses == {"Pending", "Confirmed", "Failed"}
TerminalStatuses == {"Confirmed", "Failed"}

send_submits(self, to, amount, private_key) ==
    [result |-> [ok |-> TRUE, tx_hash |-> "submitted", status |-> "Pending", reason |-> ""],
     requests |-> <<request_for(self, <<"/", "t", "x", "/", "s", "u", "b", "m", "i", "t">>)>>]

\* cardano.rs:141-148: the arguments are unused, nothing is sent
send(self, to, amount, private_key) ==
    [result |-> [ok |-> TRUE, tx_hash |-> "not_implemented", status |-> "Failed",
                 reason |-> "Send not yet implemented"],
     requests |-> <<>>]

SendAmounts == { <<"1">>, <<"0">>, <<"-","1">>, <<"1",".","5">>, <<"a","b","c">>, <<>> }
SendKeys == { <<>>, <<1, 2, 3>>, [i \in 1..32 |-> 0] }

\* a caller awaits adapter.send(to, amount, private_key)
Send(to, amount, private_key) ==
    /\ LET r == send(adapter, to, amount, private_key)
       IN  /\ sent' = [called |-> TRUE, to |-> to, amount |-> amount,
                       private_key |-> private_key, result |-> r.result]
           /\ requests' = requests \o r.requests
    /\ UNCHANGED <<adapter, bpc, baddr, response, bresult, notes>>
    /\ UNCHANGED varsValidate
    /\ UNCHANGED varsStore
    /\ UNCHANGED varsWallet
    /\ UNCHANGED varsRegistry

InitSend ==
    /\ adapter \in { new(env) : env \in Environments }
    /\ bpc = "idle"
    /\ baddr = <<>>
    /\ requests = <<>>
    /\ response = NoResponse
    /\ bresult = NoResult
    /\ notes = <<>>
    /\ SendIdle
    /\ ValidateIdle
    /\ StoreIdle
    /\ WalletIdle
    /\ RegistryIdle

NextSend ==
    \E to \in BalanceAddresses, amount \in SendAmounts, private_key \in SendKeys :
        Send(to, amount, private_key)

SpecSend == InitSend /\ [][NextSend]_vars

\* C11: Cardano::send never reports success: for every recipient, amount and
\* key it returns a TransactionResult whose status is the terminal Failed
\* variant with a not-implemented reason, never Pending or Confirmed, and it
\* issues no network request.
C11_SendNeverSucceeds ==
    sent.called =>
        /\ sent.result.ok
        /\ sent.result.status = "Failed"
        /\ sent.result.status \in TerminalStatuses
        /\ sent.result.status \notin {"Pending", "Confirmed"}
        /\ sent.result.reason = "Send not yet implemented"
        /\ requests = <<>>

C11_Witness ==
    /\ sent.called
    /\ PassesValidation(sent.to)
    /\ sent.amount = <<"1">>
    /\ Len(sent.private_key) = 32
    /\ sent.result.status = "Failed"


(***************************************************************************)
(* The chain registry: get_chain, commands/balance.rs:45-52.               *)
(***************************************************************************)
SupportedList == <<"cardano", "bitcoin", "solana">>

get_chain_exact(name) ==
    IF name \in {<<"c","a","r","d","a","n","o">>, <<"a","d","a">>}
    THEN [NoChain EXCEPT !.ok = TRUE, !.chain = "Cardano"]
    ELSE IF name \in {<<"b","i","t","c","o","i","n">>, <<"b","t","c">>}
    THEN [NoChain EXCEPT !.err = "Bitcoin support coming soon"]
    ELSE IF name \in {<<"s","o","l","a","n","a">>, <<"s","o","l">>}
    THEN [NoChain EXCEPT !.err = "Solana support coming soon"]
    ELSE [NoChain EXCEPT !.err = "Unknown chain", !.name = name, !.supported = SupportedList]

\* balance.rs:45-52; the Cardano adapter returned is Cardano::new()
get_chain(name) ==
    LET lower == to_lowercase(name)
    IN  IF lower \in {<<"c","a","r","d","a","n","o">>, <<"a","d","a">>}
        THEN [NoChain EXCEPT !.ok = TRUE, !.chain = "Cardano"]
        ELSE IF lower \in {<<"b","i","t","c","o","i","n">>, <<"b","t","c">>}
        THEN [NoChain EXCEPT !.err = "Bitcoin support coming soon"]
        ELSE IF lower \in {<<"s","o","l","a","n","a">>, <<"s","o","l">>}
        THEN [NoChain EXCEPT !.err = "Solana support coming soon"]
        ELSE [NoChain EXCEPT !.err = "Unknown chain", !.name = name,
                             !.supported = SupportedList]

\* the character c in lower and in upper case
Cases(c) ==
    {c} \cup { UpperLetters[i] : i \in { j \in 1..Len(LowerLetters) : LowerLetters[j] = c } }

\* the first n characters of a lowercase word, in every mix of cases
RECURSIVE Variants(_, _)
Variants(word, n) ==
    IF n = 0 THEN { <<>> }
    ELSE { Append(v, c) : v \in Variants(word, n - 1), c \in Cases(word[n]) }

KnownNames ==
    { <<"c","a","r","d","a","n","o">>, <<"a","d","a">>,
      <<"b","i","t","c","o","i","n">>, <<"b","t","c">>,
      <<"s","o","l","a","n","a">>, <<"s","o","l">> }

UnknownNames ==
    { <<>>, <<"d","o","g","e">>, <<"E","T","H">>, <<"a","d">>, <<"a","d","a","a">>,
      <<"a","d","a"," ">>, <<" ","C","a","r","d","a","n","o">>, <<"c","a","r","d","a","n","0">>,
      <<"b","i","t","c","o","i","n","s">>, <<"S","O","L","A","N">> }

RegistryNames ==
    UNION { Variants(k, Len(k)) : k \in KnownNames } \cup UnknownNames

\* the balance command resolves its chain argument: balance.rs:10
GetChain(name) ==
    /\ resolved' = [called |-> TRUE, name |-> name, result |-> get_chain(name)]
    /\ UNCHANGED varsValidate
    /\ UNCHANGED varsStore
    /\ UNCHANGED varsWallet
    /\ UNCHANGED varsBalance
    /\ UNCHANGED varsSend

InitRegistry ==
    /\ RegistryIdle
    /\ ValidateIdle
    /\ StoreIdle
    /\ WalletIdle
    /\ BalanceIdle
    /\ SendIdle

NextRegistry == \E name \in RegistryNames : GetChain(name)

SpecRegistry == InitRegistry /\ [][NextRegistry]_vars

\* the known names and symbols that the identifier equals but for case
Matched(name) == { k \in KnownNames : name \in Variants(k, Len(k)) }

\* C12: get_chain is case-insensitive: an identifier that equals a known chain
\* name or symbol after lowercasing resolves the same way as its lowercase
\* form (cardano and ada to the Cardano adapter), and an identifier that
\* matches none fails with the unknown-chain error that names the identifier
\* and lists the supported set.
C12_RegistryCaseInsensitive ==
    resolved.called =>
        /\ \A k \in Matched(resolved.name) :
               /\ resolved.result = get_chain(k)
               /\ k \in {<<"c","a","r","d","a","n","o">>, <<"a","d","a">>} =>
                      resolved.result.ok /\ resolved.result.chain = "Cardano"
               /\ k \notin {<<"c","a","r","d","a","n","o">>, <<"a","d","a">>} =>
                      ~resolved.result.ok /\ resolved.result.err # "Unknown chain"
        /\ Matched(resolved.name) = {} =>
               /\ ~resolved.result.ok
               /\ resolved.result.err = "Unknown chain"
               /\ resolved.result.name = resolved.name
               /\ resolved.result.supported = <<"cardano", "bitcoin", "solana">>

C12_Witness ==
    /\ resolved.called
    /\ resolved.name = <<"C","a","r","D","A","N","O">>
    /\ resolved.result.ok
    /\ resolved.result.chain = "Cardano"

C12_WitnessUnknown ==
    /\ resolved.called
    /\ resolved.name = <<"d","o","g","e">>
    /\ resolved.result.err = "Unknown chain"
    /\ resolved.result.name = <<"d","o","g","e">>


\* C13: a get_balance call is a single attempt with an all-or-nothing result:
\* it issues at most one request and never retries, and when the request
\* fails in transport, returns a non-2xx status (reported with the upstream
\* status and body) or returns an unparsable body, the call ends with an
\* error and no Balance, partial or otherwise, is returned.
C13_SingleAttemptAllOrNothing ==
    /\ Len(requests) <= 1
    /\ ~bresult.ok => bresult.balance = NoBalance
    /\ (bpc = "done" /\ response.kind = "transport_error") =>
           /\ ~bresult.ok
           /\ Len(requests) = 1
    /\ (bpc = "done" /\ response.kind = "http" /\ response.status \notin 200..299) =>
           /\ ~bresult.ok
           /\ Len(requests) = 1
           /\ bresult.status = response.status
           /\ response.text_read => bresult.text = response.text
    /\ (bpc = "done" /\ response.kind = "http" /\ ~response.parsable) =>
           /\ ~bresult.ok
           /\ Len(requests) = 1

C13_Witness ==
    /\ bpc = "done"
    /\ response.kind = "http"
    /\ response.status = 403
    /\ response.text_read
    /\ response.text = "Project token invalid"
    /\ ~bresult.ok
    /\ bresult.status = 403
    /\ bresult.text = "Project token invalid"
    /\ Len(requests) = 1


(***************************************************************************)
(* new and import on a wallets.json that already exists: the file may hold *)
(* addresses of other chains (set_address takes any chain name), may hold  *)
(* a cardano address, or may be unreadable.                                *)
(***************************************************************************)
BitcoinKey == <<"b","i","t","c","o","i","n">>

InitialFiles ==
    { AbsentFile,
      [state |-> "corrupt", store |-> DefaultWalletStore],
      [state |-> "ok",
       store |-> [DefaultWalletStore EXCEPT
                    !.addresses = set_address(EmptyStore, BitcoinKey, TestBitcoinAddress)]],
      [state |-> "ok",
       store |-> [DefaultWalletStore EXCEPT
                    !.addresses = set_address(set_address(EmptyStore, BitcoinKey,
                                                          TestBitcoinAddress),
                                              CardanoKey, TestMainnetAddress)]] }

InitFrame ==
    /\ disk \in InitialFiles
    /\ cmd = NoCommand
    /\ storedSeed = None
    /\ derived = NotDerived
    /\ ValidateIdle
    /\ StoreIdle
    /\ BalanceIdle
    /\ SendIdle
    /\ RegistryIdle

NextFrame ==
    \/ \E in \in NewInputs : New(in[1], in[2], in[3], in[4], in[5])
    \/ \E in \in ImportInputs : Import(in[1], in[2], in[3], in[4], in[5])

SpecFrame == InitFrame /\ [][NextFrame]_vars

\* the addresses a file holds for the chains other than cardano
OtherEntries(file) ==
    [k \in DOMAIN file.store.addresses \ {CardanoKey} |-> file.store.addresses[k]]

CardanoEntry(file) == map_get(file.store.addresses, CardanoKey)

FailedBeforeSaving(result) ==
    result \in {"EntropyFailed", "InvalidMnemonic", "IoError", "InvalidWordCount",
                "ComingSoon", "UnknownChain"}

\* C14: new and import change only the cardano entry of the persisted store:
\* after either command, in every outcome, the addresses stored for every
\* other chain are the same as before, and when the command fails before
\* saving the cardano entry is unchanged too.
C14_OnlyCardanoEntryChanges ==
    [][ /\ OtherEntries(disk') = OtherEntries(disk)
        /\ FailedBeforeSaving(cmd'.result) => CardanoEntry(disk') = CardanoEntry(disk) ]_vars

\* the part of C14 that holds: a command that fails before saving leaves the
\* file as it was
C14_FailureBeforeSavingKeepsFile ==
    [][ FailedBeforeSaving(cmd'.result) => disk' = disk ]_vars

=============================================================================
